---- MODULE Spec2Model ----
(***************************************************************************)
(* LapTracker motion-detection pipeline.                                   *)
(*                                                                         *)
(* Main context: the App component (monitoring flag, settings, laps) and   *)
(* the MotionEngine component (camera set-up, frame loop, score handler,   *)
(* last-trigger reference).  Worker context: the inline differencing       *)
(* worker with its retained baseline.  The two contexts exchange messages  *)
(* over two FIFO channels.                                                 *)
(*                                                                         *)
(* React state updates made inside a browser input event (click, slider)   *)
(* are rendered, and their effects re-run, before the event returns; state *)
(* updates made from the worker message callback are queued and rendered   *)
(* in a later task (action Render).  Every render re-runs the effects      *)
(* whose dependencies changed; handlerProps and loopProps are the values   *)
(* the closures of the handler effect and of the loop effect captured.     *)
(*                                                                         *)
(* The frame loop is the sequence of scheduled processFrame calls (ticks). *)
(* The App's session ends by its lap target or, in the App with a time     *)
(* target, by the interval of the time-based completion effect.            *)
(*                                                                         *)
(* Canvas drawing, the FPS counter of processFrame and the debugDiff        *)
(* read-out are presentation only and are left out.                        *)
(***************************************************************************)
EXTENDS Integers, Sequences, FiniteSets, Bags, TLC

\* ------------------------------------------------------------------ bounds
\* Date.now() when the engine is mounted (an epoch clock: far above any cooldown).
StartTime == 10000
\* Number of clock steps explored after StartTime.
Horizon == 1
\* Number of postMessage calls to the worker explored after mount.
MaxPosts == 3
\* Number of times the engine's effects are set up (mounts) explored.
MaxMounts == 2
\* Largest of the small canvas sizes (in pixels) explored, from 4 up.
MaxCanvas == 6
\* Number of messages handed to the worker in one batch, at most.
MaxBatch == 2
\* Largest whole score explored with every sensitivity (above 105 - 1).
ScoreCeiling == 106
\* Largest of the small zones (in pixels) whose stride is explored, from 0 up.
MaxStridePixels == 20
\* Number of qualifying scores arriving during a session.
MaxScores == 3
\* Number of clock steps explored during a session.
SessionHorizon == 2
\* Number of laps after the start lap in the lists whose statistics are computed.
MaxStatLaps == 3

\* ------------------------------------------------------- program constants
DefaultSensitivity == 25
MinSensitivity == 1
MaxSensitivity == 100
\* Largest score: three channels differing by 255.
MaxScore == 765
DefaultCooldown == 1000
MaxCooldown == 5000
DefaultTargetLaps == 0
DefaultTripwireX == 50
DefaultDetectionWidth == 15
MaxTripwire == 100
MaxDetectionWidth == 50
MaxDetectionHeight == 100
IdealWidth == 640
IdealHeight == 360
\* Buffer length (bytes) above which the worker compares every 16th pixel.
StrideLimit == 50000

\* The clock advances in steps of half the default cooldown.
TimeStep == DefaultCooldown \div 2
MaxTime == StartTime + Horizon * TimeStep

\* Setting values explored (all offered by the settings panel).
SensitivityValues == {DefaultSensitivity, MaxSensitivity}
CooldownValues == {DefaultCooldown \div 2, DefaultCooldown}
TargetLapsValues == {DefaultTargetLaps, DefaultTargetLaps + 1}

\* null as the value of prevPixels (a record, so it compares with buffers)
Null == [null |-> TRUE]
\* lastEvent before the first delivery
NoEvent == [ts |-> 0, lag |-> 0]
\* null as the value of the error state
NoError == "null"
\* Variant: the reference starts at the time of the mount.
NeverTriggeredIsMount == StartTime
\* lastTriggerRef before the first trigger: useRef<number>(0)
NeverTriggered == 0

\* RGBA sample buffers the frame loop may extract (alpha is 255: the canvas
\* context is opaque).  SampleB differs from SampleA by exactly the default
\* threshold 105 - 25 = 80.
SampleA == [data |-> <<0, 0, 0, 255>>, width |-> 1, height |-> 1]
SampleB == [data |-> <<80, 0, 0, 255>>, width |-> 1, height |-> 1]
SampleD == [data |-> <<0, 0, 0, 255, 255, 255, 255, 255>>, width |-> 2, height |-> 1]
Samples == {SampleA, SampleB, SampleD}

VARIABLES
  now,              \* Date.now()
  camera,           \* what the video element shows: "pending" (no stream yet), "live" or "failed"
  engine,           \* MotionEngine effects: "mounted", "cleanedUp" (StrictMode) or "unmounted"
  streams,          \* one entry per getUserMedia call: "pending", "live", "stopped" or "failed"
  streamRef,        \* streamRef.current: 0 for null, else the index of the stream it holds
  videoReady,       \* video.readyState >= 2
  error,            \* MotionEngine error state (NoError or the message)
  settings,         \* App settings as rendered
  isMonitoring,     \* App isMonitoring as rendered (the prop the engine closures hold)
  laps,             \* App laps as rendered
  lastActivity,     \* App lastActivity as rendered
  updateQueue,      \* timestamps passed to onMotionTriggered whose state updates are not rendered yet
  lastTriggerRef,   \* lastTriggerRef.current
  toWorker,         \* messages posted to the worker, not yet handled
  toMain,           \* messages posted by the worker, not yet handled
  prevPixels,       \* worker baseline (Null or a buffer; history: the message it came with)
  posted,           \* number of postMessage calls to the worker since mount
  window,           \* history: number of the current monitoring window
  handlerProps,     \* isMonitoring and settings captured by the bound handleMessage
  loopProps,        \* isMonitoring captured by the scheduled processFrame
  lastEvent,        \* history: timestamp last delivered to onMotionTriggered, and how many later samples were in flight
  eventsSinceTick,  \* history: events delivered since the last processFrame call
  refPixels,        \* history: the baseline a differencer run inside postMessage would hold
  geometry,         \* one axis of the zone: its settings, the canvas size and the rectangle processFrame derives
  ticks,            \* the scheduled calls of processFrame: "raf" or "rvfc" each
  scoring,          \* one comparison of the worker: the buffer length, its white pixel and the score computed
  stats             \* one evaluation of App's stats: the lap list, the lap target and the statistics computed

vars == <<now, camera, engine, streams, streamRef, videoReady, error, settings, isMonitoring, laps,
          lastActivity, updateQueue, lastTriggerRef, handlerProps, loopProps, toWorker,
          toMain, prevPixels, posted, window, lastEvent, eventsSinceTick,
          refPixels, ticks, geometry, scoring, stats>>

appVars == <<settings, isMonitoring, laps, lastActivity, updateQueue>>
lifecycleVars == <<engine, streams, streamRef>>
cameraVars == <<camera, videoReady, error, lifecycleVars>>
workerVars == <<toMain, prevPixels>>
histVars == <<window, lastEvent, eventsSinceTick>>
closureVars == <<handlerProps, loopProps>>

\* ------------------------------------------------------------ worker code
ResetMsg == [type |-> "RESET"]

Abs(x) == IF x < 0 THEN -x ELSE x

\* Variant: the coarse stride starts at the limit itself.
SkipFromLimit(len) == IF len >= StrideLimit THEN 16 ELSE 4

\* const skip = pixels.length > 50000 ? 16 : 4
Skip(len) == IF len > StrideLimit THEN 16 ELSE 4

\* The byte offsets (0-based) the for loop takes from offset i on:
\* for (let i = 0; i < pixels.length; i += skip * 4)
LoopOffsets(len, i, skip) == {j \in i..(len - 1) : (j - i) % (skip * 4) = 0}

\* rDiff + gDiff + bDiff of the pixel at byte offset j, the baseline being
\* read shift bytes further on.
ChannelDiffs(pixels, prev, j, shift) ==
  Abs(pixels[j + 1] - prev[j + 1 + shift])
  + Abs(pixels[j + 2] - prev[j + 2 + shift])
  + Abs(pixels[j + 3] - prev[j + 3 + shift])

\* The pair <<diffScore, pixelsChecked>> accumulated over the offsets offs
\* (the sum is taken as the size of the bag holding each offset as many
\* times as its pixel differs).
Accumulate(pixels, prev, offs, shift) ==
  LET differing == {j \in offs : ChannelDiffs(pixels, prev, j, shift) > 0}
  IN <<BagCardinality([j \in differing |-> ChannelDiffs(pixels, prev, j, shift)]),
       Cardinality(offs)>>

\* Variant: the baseline is read one byte further than the sample.
DiffLoopShifted(pixels, prev, i, skip) ==
  Accumulate(pixels, prev, LoopOffsets(Len(pixels), i, skip), 1)

\* The for loop of the worker from byte offset i (0-based): the pair
\* <<diffScore, pixelsChecked>> it accumulates.
DiffLoop(pixels, prev, i, skip) ==
  Accumulate(pixels, prev, LoopOffsets(Len(pixels), i, skip), 0)

\* A score is kept as the exact fraction num / den.
Zero == [num |-> 0, den |-> 1]

\* Variant: the sum is divided by the number of pixels of the buffer.
NormalizedDiffOverAllPixels(pixels, prev) ==
  LET acc == DiffLoop(pixels, prev, 0, Skip(Len(pixels)))
  IN IF acc[2] > 0 THEN [num |-> acc[1], den |-> Len(pixels) \div 4] ELSE Zero

\* normalizedDiff = pixelsChecked > 0 ? diffScore / pixelsChecked : 0
NormalizedDiff(pixels, prev) ==
  LET acc == DiffLoop(pixels, prev, 0, Skip(Len(pixels)))
  IN IF acc[2] > 0 THEN [num |-> acc[1], den |-> acc[2]] ELSE Zero

\* The baseline is dropped when its length differs from the new buffer's.
NeedsReset(prev, pixels) == prev # Null /\ Len(prev.data) # Len(pixels)

\* Variant: the length check is missing.
BaselineNoLengthCheck(prev, pixels) == prev

\* Baseline in effect for a PROCESS message after the length check.
Baseline(prev, pixels) == IF NeedsReset(prev, pixels) THEN Null ELSE prev

\* diff posted for a PROCESS message.
WorkerDiff(prev, pixels) ==
  IF Baseline(prev, pixels) = Null THEN Zero
  ELSE NormalizedDiff(pixels, Baseline(prev, pixels).data)

\* The byte offsets (1-based) of the channels the for loop reads.
Visited(len) ==
  {i \in 1..len : (i - 1) % (Skip(len) * 4) \in {0, 1, 2}}

\* Variant: only the bytes that were compared are copied into the baseline.
NextBaselineVisitedOnly(prev, pixels) ==
  IF Baseline(prev, pixels) = Null THEN pixels
  ELSE [i \in 1..Len(pixels) |->
          IF i \in Visited(Len(pixels)) THEN pixels[i] ELSE prev.data[i]]

\* Variant: a buffer of another length does not replace the baseline.
NextBaselineKeptOnMismatch(prev, pixels) ==
  IF NeedsReset(prev, pixels) THEN prev.data ELSE pixels

\* The baseline kept after a PROCESS message: new Uint8ClampedArray(pixels)
\* when there was none, prevPixels.set(pixels) otherwise.
NextBaseline(prev, pixels) == pixels

\* The message posted for the PROCESS message e: { diff } (history: the
\* sample it answers and what the worker found as baseline).
ScoreMsg(prev, e) ==
  [diff |-> WorkerDiff(prev, e.data),
   id |-> e.id, win |-> e.win, ref |-> e.ref,
   fresh |-> prev = Null \/ Len(prev.data) # Len(e.data),
   same |-> prev # Null /\ prev.data = e.data,
   mismatch |-> NeedsReset(prev, e.data),
   reshaped |-> prev # Null /\ (prev.width # e.width \/ prev.height # e.height)]

\* Variant: the first-frame branch returns without posting.
WorkerRepliesSilentOnFresh(prev, e) ==
  IF e.type = "RESET" \/ Baseline(prev, e.data) = Null THEN <<>>
  ELSE <<ScoreMsg(prev, e)>>

\* Variant: the buffer is posted back with the score.
WorkerRepliesWithBuffer(prev, e) ==
  IF e.type = "RESET" THEN <<>>
  ELSE <<[f \in DOMAIN ScoreMsg(prev, e) \cup {"data"} |->
            IF f = "data" THEN e.data ELSE ScoreMsg(prev, e)[f]]>>

\* The messages the worker posts while handling e: none for RESET, one for
\* PROCESS (diff 0 from the first-frame branch, normalizedDiff otherwise).
WorkerReplies(prev, e) ==
  IF e.type = "RESET" THEN <<>> ELSE <<ScoreMsg(prev, e)>>

\* self.onmessage of the worker
WorkerOnMessage ==
  /\ toWorker # <<>>
  /\ toWorker' = Tail(toWorker)
  /\ LET e == Head(toWorker)
     IN /\ prevPixels' = IF e.type = "RESET" THEN Null
                         ELSE [data |-> NextBaseline(prevPixels, e.data),
                               width |-> e.width, height |-> e.height,
                               win |-> e.win, id |-> e.id]
        /\ toMain' = toMain \o WorkerReplies(prevPixels, e)
  /\ UNCHANGED <<now, geometry, scoring, stats, refPixels, cameraVars, appVars, lastTriggerRef, closureVars, ticks, posted, histVars>>

\* ------------------------------------------------------------- gate code
\* Variant: the threshold is the complement of the sensitivity.
ThresholdComplement(sensitivity) == 100 - sensitivity

\* const threshold = 105 - settings.sensitivity
Threshold(sensitivity) == 105 - sensitivity

\* Variant: the cooldown setting is read as seconds.
OnCooldownSeconds(t, last, cooldown) == t - last < cooldown \div 1000

\* const onCooldown = now - lastTriggerRef.current < settings.cooldown
OnCooldown(t, last, cooldown) == t - last < cooldown

\* Variant: the comparison is not strict.
ExceedsOrEqual(diff, threshold) == diff.num >= threshold * diff.den

\* diff > threshold for the fraction diff
Exceeds(diff, threshold) == diff.num > threshold * diff.den

\* Variant: the monitoring flag is not consulted.
FiresIgnoringMonitoring(diff, t, last, s, mon) ==
  /\ Exceeds(diff, Threshold(s.sensitivity))
  /\ ~OnCooldown(t, last, s.cooldown)

\* if (diff > threshold && !onCooldown && isMonitoring)
Fires(diff, t, last, s, mon) ==
  /\ Exceeds(diff, Threshold(s.sensitivity))
  /\ ~OnCooldown(t, last, s.cooldown)
  /\ mon

\* Variant: the time elapsed since the last trigger is used.
TriggerTimestampElapsed(t) == t - lastTriggerRef

\* The timestamp stored and delivered on a fire: const now = Date.now()
TriggerTimestamp(t) == t

\* The samples submitted after the one whose score heads toMain.
Lag ==
  Len(toMain) - 1 + Cardinality({i \in DOMAIN toWorker : toWorker[i].type = "PROCESS"})

\* Variant: the handler is only bound while monitoring is on.
ListeningWhileMonitoring(props) == props.isMonitoring

\* worker.onmessage = handleMessage: every run of the handler effect binds
\* the handler, whatever the props it captured.
Listening(props) == TRUE

\* handleMessage: worker.onmessage on the main thread
HandleMessage ==
  /\ toMain # <<>>
  /\ Listening(handlerProps)
  /\ toMain' = Tail(toMain)
  /\ LET m == Head(toMain)
     IN IF Fires(m.diff, now, lastTriggerRef, handlerProps.settings, handlerProps.isMonitoring)
        THEN /\ lastTriggerRef' = TriggerTimestamp(now)
             /\ updateQueue' = Append(updateQueue, TriggerTimestamp(now))
             /\ lastEvent' = [ts |-> TriggerTimestamp(now), lag |-> Lag]
             /\ eventsSinceTick' = eventsSinceTick + 1
        ELSE UNCHANGED <<lastTriggerRef, updateQueue, lastEvent, eventsSinceTick>>
  /\ UNCHANGED <<now, geometry, scoring, stats, refPixels, cameraVars, settings, isMonitoring, laps, lastActivity,
                 closureVars, ticks, toWorker, prevPixels, posted, window>>

\* ------------------------------------------------------------- App code
\* Variant: the duration is computed without the guard on lastLap, from a
\* previous timestamp of 0 when the list is empty.
NewLapUnguarded(prevLaps, timestamp) ==
  [timestamp |-> timestamp,
   duration |-> timestamp - (IF Len(prevLaps) > 0
                             THEN prevLaps[Len(prevLaps)].timestamp
                             ELSE 0)]

\* The lap appended by the setLaps updater of handleMotionTriggered.
NewLap(prevLaps, timestamp) ==
  [timestamp |-> timestamp,
   duration |-> IF Len(prevLaps) > 0
                THEN timestamp - prevLaps[Len(prevLaps)].timestamp
                ELSE 0]

\* laps.filter(l => l.duration > 0).length
CompletedLaps(ls) == Cardinality({i \in 1..Len(ls) : ls[i].duration > 0})

\* settings.targetLaps > 0 && completedLaps >= settings.targetLaps
TargetReached(ls, targetLaps) == targetLaps > 0 /\ CompletedLaps(ls) >= targetLaps

\* durations.reduce((acc, curr) => acc + curr, 0)
RECURSIVE TotalTime(_)
TotalTime(durations) ==
  IF durations = <<>> THEN 0 ELSE Head(durations) + TotalTime(Tail(durations))

\* Math.min(...durations) and Math.max(...durations) of a non-empty list
RECURSIVE Fastest(_)
Fastest(durations) ==
  IF Len(durations) = 1 THEN durations[1]
  ELSE LET rest == Fastest(Tail(durations))
       IN IF Head(durations) < rest THEN Head(durations) ELSE rest
RECURSIVE Slowest(_)
Slowest(durations) ==
  IF Len(durations) = 1 THEN durations[1]
  ELSE LET rest == Slowest(Tail(durations))
       IN IF Head(durations) > rest THEN Head(durations) ELSE rest

\* Variant: the start lap is not filtered out.
ValidLapsUnfiltered(ls) == ls

\* laps.filter(l => l.duration > 0)
ValidLaps(ls) == SelectSeq(ls, LAMBDA l : l.duration > 0)

\* stats of App: the statistics of the laps with a duration; the average
\* totalTime / count is kept as a fraction.
Stats(ls, targetLaps) ==
  LET validLaps == ValidLaps(ls)
      count == Len(validLaps)
      durations == [i \in 1..count |-> validLaps[i].duration]
  IN IF count = 0
     THEN [average |-> [num |-> 0, den |-> 1], count |-> 0, last |-> 0, fastest |-> 0,
           slowest |-> 0, isFinished |-> FALSE, targetLaps |-> targetLaps]
     ELSE [average |-> [num |-> TotalTime(durations), den |-> count],
           count |-> count,
           last |-> durations[count],
           fastest |-> Fastest(durations),
           slowest |-> Slowest(durations),
           isFinished |-> targetLaps > 0 /\ count >= targetLaps,
           targetLaps |-> targetLaps]

\* Before the statistics are computed.
NoStats == [computed |-> FALSE]

\* settings.targetDuration > 0 && laps.length > 0 &&
\*   (Date.now() - laps[0].timestamp) >= settings.targetDuration * 1000
TimeTargetReached(ls, targetDuration, t) ==
  /\ targetDuration > 0
  /\ Len(ls) > 0
  /\ t - ls[1].timestamp >= targetDuration * 1000

\* Variant: only the lap target ends a session.
IsFinishedByLapsOnly(ls, s, t) == TargetReached(ls, s.targetLaps)

\* isFinished of toggleMonitoring: lapTargetReached || timeTargetReached.
\* (The App without the time target is the case targetDuration = 0.)
IsFinished(ls, s, t) ==
  TargetReached(ls, s.targetLaps) \/ TimeTargetReached(ls, s.targetDuration, t)

\* The queued updaters of handleMotionTriggered applied in order to the lap
\* list: the resulting list, and whether one of them called setIsMonitoring(false).
RECURSIVE ApplyUpdates(_, _, _)
ApplyUpdates(queue, ls, targetLaps) ==
  IF queue = <<>> THEN [laps |-> ls, stop |-> FALSE]
  ELSE LET nextLaps == Append(ls, NewLap(ls, Head(queue)))
           rest == ApplyUpdates(Tail(queue), nextLaps, targetLaps)
       IN [laps |-> rest.laps,
           stop |-> rest.stop \/ TargetReached(nextLaps, targetLaps)]

\* The rendered state once the queued updates are rendered.
Rendered ==
  LET r == ApplyUpdates(updateQueue, laps, settings.targetLaps)
  IN [laps |-> r.laps,
      lastActivity |-> IF updateQueue = <<>> THEN lastActivity
                       ELSE updateQueue[Len(updateQueue)],
      isMonitoring |-> isMonitoring /\ ~r.stop]

\* Variant: the effect never posts RESET.
HandlerEffectNoReset(queue, mon) == queue

\* Variant: the effect posts RESET when monitoring is on.
HandlerEffectInverted(queue, mon) == IF mon THEN Append(queue, ResetMsg) ELSE queue

\* Body of the message-handler effect: rebinds the handler and posts RESET
\* when monitoring is off.
HandlerEffect(queue, mon) == IF ~mon THEN Append(queue, ResetMsg) ELSE queue

\* Variant: cooldown is missing from the dependency list.
HandlerDepsWithoutCooldown(mon, s, newMon, newS) ==
  \/ newMon # mon
  \/ newS.sensitivity # s.sensitivity
  \/ newS.targetLaps # s.targetLaps

\* Dependency list of the message-handler effect: isMonitoring, sensitivity,
\* cooldown and onMotionTriggered, whose identity follows settings.targetLaps.
HandlerDepsChanged(mon, s, newMon, newS) ==
  \/ newMon # mon
  \/ newS.sensitivity # s.sensitivity
  \/ newS.cooldown # s.cooldown
  \/ newS.targetLaps # s.targetLaps

\* ts without its last entry of kind k: cancelAnimationFrame(rafId) and
\* cancelVideoFrameCallback(rvfcId) cancel the call scheduled last.
RECURSIVE CancelLast(_, _)
CancelLast(ts, k) ==
  IF ts = <<>> THEN <<>>
  ELSE IF ts[Len(ts)] = k THEN SubSeq(ts, 1, Len(ts) - 1)
  ELSE Append(CancelLast(SubSeq(ts, 1, Len(ts) - 1), k), ts[Len(ts)])

\* Variant: the clean-up only cancels the animation frame.
CancelTicksRafOnly(ts, video) == CancelLast(ts, "raf")

\* Clean-up of the loop effect: the animation frame is cancelled, and the
\* video frame callback when videoRef.current is set (video).
CancelTicks(ts, video) ==
  IF video THEN CancelLast(CancelLast(ts, "raf"), "rvfc") ELSE CancelLast(ts, "raf")

\* Kickoff: rafId = requestAnimationFrame(processFrame)
Kickoff(ts) == Append(ts, "raf")

\* Dependency list of the loop effect: settings and isMonitoring.
LoopDepsChanged(mon, s, newMon, newS) == newMon # mon \/ newS # s

\* Effects re-run by a render that commits newMon and newS: the handler
\* effect rebinds handleMessage and posts RESET when monitoring is off; the
\* loop effect cancels the scheduled tick and schedules a new processFrame.
RunEffects(newMon, newS) ==
  /\ IF HandlerDepsChanged(isMonitoring, settings, newMon, newS)
     THEN /\ handlerProps' = [isMonitoring |-> newMon, settings |-> newS]
          /\ toWorker' = HandlerEffect(toWorker, newMon)
     ELSE UNCHANGED <<handlerProps, toWorker>>
  /\ IF LoopDepsChanged(isMonitoring, settings, newMon, newS)
     THEN /\ loopProps' = [isMonitoring |-> newMon]
          /\ ticks' = Kickoff(CancelTicks(ticks, TRUE))
     ELSE UNCHANGED <<loopProps, ticks>>
  /\ posted' = posted + Len(toWorker') - Len(toWorker)
  /\ posted' <= MaxPosts
  /\ refPixels' = IF Len(toWorker') > Len(toWorker) THEN Null ELSE refPixels

\* React renders the updates queued by handleMotionTriggered.
Render ==
  /\ updateQueue # <<>>
  /\ updateQueue' = <<>>
  /\ laps' = Rendered.laps
  /\ lastActivity' = Rendered.lastActivity
  /\ isMonitoring' = Rendered.isMonitoring
  /\ RunEffects(Rendered.isMonitoring, settings)
  /\ UNCHANGED <<now, geometry, scoring, stats, cameraVars, settings, lastTriggerRef, workerVars, histVars>>

\* Variant: starting or stopping also clears lastTriggerRef.
ToggleMonitoringClearsTrigger ==
  /\ updateQueue' = <<>>
  /\ lastTriggerRef' = 0
  /\ IF isMonitoring
     THEN /\ isMonitoring' = FALSE
          /\ laps' = Rendered.laps
          /\ lastActivity' = Rendered.lastActivity
          /\ UNCHANGED window
     ELSE LET isFinished == IsFinished(laps, settings, now)
          IN /\ isMonitoring' = TRUE
             /\ window' = window + 1
             /\ IF Len(laps) = 0 \/ isFinished
                THEN /\ lastActivity' = now
                     /\ laps' = <<[timestamp |-> now, duration |-> 0]>>
                ELSE /\ laps' = Rendered.laps
                     /\ lastActivity' = Rendered.lastActivity
  /\ RunEffects(isMonitoring', settings)
  /\ UNCHANGED <<now, geometry, scoring, stats, cameraVars, settings, workerVars, lastEvent, eventsSinceTick>>

\* toggleMonitoring (Start/Stop button)
ToggleMonitoring ==
  /\ updateQueue' = <<>>
  /\ IF isMonitoring
     THEN /\ isMonitoring' = FALSE
          /\ laps' = Rendered.laps
          /\ lastActivity' = Rendered.lastActivity
          /\ UNCHANGED window
     ELSE LET isFinished == IsFinished(laps, settings, now)
          IN /\ isMonitoring' = TRUE
             /\ window' = window + 1
             /\ IF Len(laps) = 0 \/ isFinished
                THEN /\ lastActivity' = now
                     /\ laps' = <<[timestamp |-> now, duration |-> 0]>>
                ELSE /\ laps' = Rendered.laps
                     /\ lastActivity' = Rendered.lastActivity
  /\ RunEffects(isMonitoring', settings)
  /\ UNCHANGED <<now, geometry, scoring, stats, cameraVars, settings, lastTriggerRef, workerVars, lastEvent, eventsSinceTick>>

\* Variant: resetting the laps also re-arms the gate.
ResetLapsClearsTrigger ==
  /\ Len(laps) > 0
  /\ updateQueue' = <<>>
  /\ laps' = <<>>
  /\ lastActivity' = 0
  /\ lastTriggerRef' = NeverTriggered
  /\ isMonitoring' = Rendered.isMonitoring
  /\ RunEffects(Rendered.isMonitoring, settings)
  /\ UNCHANGED <<now, geometry, scoring, stats, cameraVars, settings, workerVars, histVars>>

\* resetLaps (Reset Laps button, shown while the lap list is not empty)
ResetLaps ==
  /\ Len(laps) > 0
  /\ updateQueue' = <<>>
  /\ laps' = <<>>
  /\ lastActivity' = 0
  /\ isMonitoring' = Rendered.isMonitoring
  /\ RunEffects(Rendered.isMonitoring, settings)
  /\ UNCHANGED <<now, geometry, scoring, stats, cameraVars, settings, lastTriggerRef, workerVars, histVars>>

\* Variant: the effect does not look at settings.targetDuration === 0.
TimeCheckRunsUnguarded(mon, ls, targetDuration) == mon /\ Len(ls) > 0

\* The time-based completion effect sets its interval up unless
\* (!isMonitoring || laps.length === 0 || settings.targetDuration === 0).
TimeCheckRuns(mon, ls, targetDuration) ==
  mon /\ Len(ls) > 0 /\ targetDuration # 0

\* elapsedTime >= targetDurationMs, from the first lap of the rendered list
TimeIsUp(ls, targetDuration, t) == t - ls[1].timestamp >= targetDuration * 1000

\* The interval callback of the time-based completion effect finding the
\* time up: setIsMonitoring(false), rendered with the updates queued.  (A
\* callback that finds time left changes nothing.)
CheckInterval ==
  /\ TimeCheckRuns(isMonitoring, laps, settings.targetDuration)
  /\ TimeIsUp(laps, settings.targetDuration, now)
  /\ updateQueue' = <<>>
  /\ laps' = Rendered.laps
  /\ lastActivity' = Rendered.lastActivity
  /\ isMonitoring' = FALSE
  /\ RunEffects(FALSE, settings)
  /\ UNCHANGED <<now, geometry, scoring, stats, cameraVars, settings, lastTriggerRef, workerVars, histVars>>

\* updateSetting(key, value) of the settings panel, called by the change
\* event of an input: the value differs from the one rendered.
UpdateSetting(key, value) ==
  /\ settings[key] # value
  /\ settings' = [settings EXCEPT ![key] = value]
  /\ updateQueue' = <<>>
  /\ laps' = Rendered.laps
  /\ lastActivity' = Rendered.lastActivity
  /\ isMonitoring' = Rendered.isMonitoring
  /\ RunEffects(Rendered.isMonitoring, settings')
  /\ UNCHANGED <<now, geometry, scoring, stats, cameraVars, lastTriggerRef, workerVars, histVars>>

\* ---------------------------------------------------------- engine code
\* setupCamera after its await, getUserMedia call i having resolved: the
\* stream is stored in streamRef and, when the video element is attached,
\* shown by it.
SetupCameraResolve(i) ==
  /\ streams[i] = "pending"
  /\ streams' = [streams EXCEPT ![i] = "live"]
  /\ streamRef' = i
  /\ camera' = IF engine # "unmounted" THEN "live" ELSE camera
  /\ error' = NoError
  /\ UNCHANGED <<now, geometry, scoring, stats, refPixels, engine, videoReady, appVars, lastTriggerRef, closureVars, ticks, toWorker,
                 workerVars, posted, histVars>>

\* Variant: the catch block calls getUserMedia again.
SetupCameraRejectAndRetry(i) ==
  /\ streams[i] = "pending"
  /\ streams' = Append([streams EXCEPT ![i] = "failed"], "pending")
  /\ camera' = camera
  /\ error' = "Camera access denied or unavailable."
  /\ UNCHANGED <<now, geometry, scoring, stats, refPixels, engine, streamRef, videoReady, appVars, lastTriggerRef, closureVars, ticks,
                 toWorker, workerVars, posted, histVars>>

\* setupCamera's catch block, getUserMedia call i having rejected
SetupCameraReject(i) ==
  /\ streams[i] = "pending"
  /\ streams' = [streams EXCEPT ![i] = "failed"]
  /\ camera' = IF camera = "pending" THEN "failed" ELSE camera
  /\ error' = "Camera access denied or unavailable."
  /\ UNCHANGED <<now, geometry, scoring, stats, refPixels, engine, streamRef, videoReady, appVars, lastTriggerRef, closureVars, ticks,
                 toWorker, workerVars, posted, histVars>>

\* onloadedmetadata / play: the video element has a current frame
VideoReady ==
  /\ camera = "live"
  /\ ~videoReady
  /\ videoReady' = TRUE
  /\ UNCHANGED <<now, geometry, scoring, stats, refPixels, camera, error, lifecycleVars, appVars, lastTriggerRef, closureVars, ticks,
                 toWorker, workerVars, posted, histVars>>

\* getTracks().forEach(track => track.stop()) on the stream streamRef holds
StopTracks(ss, ref) ==
  IF ref # 0 /\ ss[ref] = "live" THEN [ss EXCEPT ![ref] = "stopped"] ELSE ss

\* The component is removed: the effect clean-ups terminate the worker,
\* remove the message listener, stop the stream held by streamRef and cancel
\* the scheduled animation frame; videoRef.current is null by then, so a
\* scheduled video frame callback stays.
Unmount ==
  /\ engine = "mounted"
  /\ engine' = "unmounted"
  /\ streams' = StopTracks(streams, streamRef)
  /\ toWorker' = <<>>
  /\ toMain' = <<>>
  /\ prevPixels' = Null
  /\ refPixels' = Null
  /\ ticks' = CancelTicks(ticks, FALSE)
  /\ UNCHANGED <<now, geometry, scoring, stats, camera, streamRef, videoReady, error, appVars, lastTriggerRef,
                 closureVars, posted, histVars>>

\* React.StrictMode runs the effect clean-ups and sets the effects up again
\* in one go: the refs, the state and the video element are kept; a new
\* worker is created, the handler bound (RESET posted while monitoring is
\* off), setupCamera called again and the frame loop kicked off again.
StrictRemount ==
  /\ engine = "mounted"
  /\ Len(streams) < MaxMounts
  /\ streams' = Append(StopTracks(streams, streamRef), "pending")
  /\ toWorker' = HandlerEffect(<<>>, isMonitoring)
  /\ toMain' = <<>>
  /\ prevPixels' = Null
  /\ refPixels' = Null
  /\ handlerProps' = [isMonitoring |-> isMonitoring, settings |-> settings]
  /\ loopProps' = [isMonitoring |-> isMonitoring]
  /\ ticks' = Kickoff(CancelTicks(ticks, TRUE))
  /\ UNCHANGED <<now, geometry, scoring, stats, camera, engine, streamRef, videoReady, error, appVars,
                 lastTriggerRef, posted, histVars>>

\* Variant: only the first pixel of the zone is sent.
ProcessMsgFirstPixel(s) ==
  [type |-> "PROCESS", data |-> SubSeq(s.data, 1, 4), width |-> 1, height |-> 1,
   id |-> posted + 1, win |-> window, ref |-> WorkerDiff(refPixels, s.data)]

\* The PROCESS message posted for the extracted sample s (ref: the score a
\* differencer run inside postMessage would return for s).
ProcessMsg(s) ==
  [type |-> "PROCESS", data |-> s.data, width |-> s.width, height |-> s.height,
   id |-> posted + 1, win |-> window, ref |-> WorkerDiff(refPixels, s.data)]

\* Variant: a tick waits until the worker has answered.
SubmitsWhenIdle(ready, ctx, mon) ==
  ready /\ ctx /\ mon /\ toWorker = <<>> /\ toMain = <<>>

\* Variant: the readiness check of the video is missing.
SubmitsWithoutReadyCheck(ready, ctx, mon) == ctx /\ mon

\* Conditions under which a tick captures the zone and posts it: the video
\* has a frame, the 2d context was obtained, monitoring is on (workerRef is
\* set from the first effect on).
Submits(ready, ctx, mon) == ready /\ ctx /\ mon

\* Variant: a tick that finds no frame or no context schedules nothing.
RescheduleAfterFrameOnly(ready, ctx) ==
  IF ready /\ ctx THEN <<"rvfc">> ELSE <<>>

\* The call processFrame schedules before it returns: an animation frame
\* when the video has no frame or there is no 2d context, else a video
\* frame callback (the browser is taken to offer requestVideoFrameCallback).
Reschedule(ready, ctx) ==
  IF ready /\ ctx THEN <<"rvfc">> ELSE <<"raf">>

\* ts without its entry number i
Without(ts, i) == SubSeq(ts, 1, i - 1) \o SubSeq(ts, i + 1, Len(ts))

\* processFrame: one tick of the frame loop, run as the scheduled call
\* number i; ctx is the 2d context obtained (FALSE when getContext returns
\* null), s the sample the zone holds.  videoRef.current is null once the
\* component is removed.
ProcessFrame(i, ctx, s) ==
  /\ i \in DOMAIN ticks
  /\ eventsSinceTick' = 0
  /\ LET ready == engine # "unmounted" /\ videoReady
     IN /\ ticks' = Without(ticks, i) \o Reschedule(ready, ctx)
        /\ IF Submits(ready, ctx, loopProps.isMonitoring)
           THEN /\ posted < MaxPosts
                /\ toWorker' = Append(toWorker, ProcessMsg(s))
                /\ posted' = posted + 1
                /\ refPixels' = [data |-> NextBaseline(refPixels, s.data)]
           ELSE UNCHANGED <<toWorker, posted, refPixels>>
  /\ UNCHANGED <<now, geometry, scoring, stats, cameraVars, appVars, lastTriggerRef, closureVars, workerVars,
                 window, lastEvent>>

\* What the zone may hold when a tick reads it; a tick that reads nothing is
\* the same whatever the zone holds.
ZoneContents(ctx) ==
  IF Submits(engine # "unmounted" /\ videoReady, ctx, loopProps.isMonitoring)
  THEN Samples ELSE {SampleA}

\* Date.now() moves on.
Advance ==
  /\ now < MaxTime
  /\ now' = now + TimeStep
  /\ UNCHANGED <<geometry, scoring, stats, refPixels, cameraVars, appVars, lastTriggerRef, closureVars, ticks, toWorker,
                 workerVars, posted, histVars>>

\* -------------------------------------------------------- zone geometry
\* Lengths are kept exact: zone sizes in hundredths of a pixel, positions in
\* two-hundredths of a pixel.
Max(a, b) == IF a > b THEN a ELSE b
Min(a, b) == IF a < b THEN a ELSE b

\* 100 * centerX = 100 * (settings.tripwireX / 100) * canvas.width
Center100(tripwire, canvas) == tripwire * canvas

\* Variant: the floor of two pixels is missing.
Zone100NoFloor(detection, canvas) == detection * canvas

\* 100 * zoneW = 100 * Math.max(2, (settings.detectionWidth / 100) * canvas.width)
Zone100(detection, canvas) == Max(200, detection * canvas)

\* 200 * sampleX = 200 * Math.max(0, Math.min(canvas.width - zoneW, centerX - zoneW / 2))
Sample200(tripwire, detection, canvas) ==
  Max(0, Min(200 * canvas - 2 * Zone100(detection, canvas),
             2 * Center100(tripwire, canvas) - Zone100(detection, canvas)))

\* getImageData takes long arguments: a fraction is dropped.
ToLong(x, unit) == x \div unit

\* The zone settings offered by the settings panel and the canvas sizes
\* explored for one axis: x with detectionWidth, y with detectionHeight.
CanvasSizes == (4..MaxCanvas) \cup {IdealHeight, IdealWidth}
GeometryInputs ==
  [axis : {"x"}, tripwire : 0..MaxTripwire, detection : 1..MaxDetectionWidth,
   canvas : CanvasSizes, computed : {FALSE}, zone : {0}, sample : {0}]
  \cup
  [axis : {"y"}, tripwire : 0..MaxTripwire, detection : 1..MaxDetectionHeight,
   canvas : CanvasSizes, computed : {FALSE}, zone : {0}, sample : {0}]

\* processFrame's "Calculate geometry" for one axis.
CalculateGeometry ==
  /\ ~geometry.computed
  /\ geometry' = [geometry EXCEPT
                    !.computed = TRUE,
                    !.zone = Zone100(geometry.detection, geometry.canvas),
                    !.sample = Sample200(geometry.tripwire, geometry.detection, geometry.canvas)]
  /\ UNCHANGED <<now, scoring, stats, refPixels, cameraVars, appVars, lastTriggerRef, closureVars, ticks,
                 toWorker, workerVars, posted, histVars>>

\* ------------------------------------------------------ stride of the loop
\* An RGBA buffer of len bytes, black but for pixel p (0-based; none for -1).
BlackBut(len, p) ==
  [i \in 1..len |-> IF i % 4 = 0 \/ (i - 1) \div 4 = p THEN 255 ELSE 0]

\* No comparison made.
NotScored == [len |-> 0, white |-> -1, computed |-> FALSE, score |-> Zero]

\* The buffer lengths explored: every small zone, the zone of the stride
\* limit and its neighbours; and the pixel that is white: none, one on or
\* off either stride, or the last one.
StrideLengths ==
  {4 * k : k \in 0..MaxStridePixels}
  \cup {StrideLimit - 4, StrideLimit, StrideLimit + 4}
StridePixels(len) ==
  {p \in {-1, 0, 3, 4, 16, len \div 4 - 1} : p < len \div 4}
ScoringInputs ==
  {[len |-> len, white |-> p, computed |-> FALSE, score |-> Zero] :
     <<len, p>> \in {x \in StrideLengths \X (-1..(StrideLimit \div 4)) :
                       x[2] \in StridePixels(x[1])}}

\* The worker's PROCESS branch for a buffer of scoring.len bytes in which
\* pixel scoring.white is white, the baseline being the all-black buffer of
\* that length.
ScoreBuffer ==
  /\ ~scoring.computed
  /\ scoring' = [scoring EXCEPT
                   !.computed = TRUE,
                   !.score = WorkerDiff([data |-> BlackBut(scoring.len, -1)],
                                        BlackBut(scoring.len, scoring.white))]
  /\ UNCHANGED <<now, geometry, stats, refPixels, cameraVars, appVars, lastTriggerRef, closureVars, ticks,
                 toWorker, workerVars, posted, histVars>>

\* --------------------------------------------------------- specification
\* The state once MotionEngine is mounted under App's initial state: the
\* handler effect has posted its first RESET, setupCamera is awaiting
\* getUserMedia, the frame loop is scheduled.
EngineInit ==
  /\ now = StartTime
  /\ camera = "pending"
  /\ engine = "mounted"
  /\ streams = <<"pending">>
  /\ streamRef = 0
  /\ videoReady = FALSE
  /\ error = NoError
  /\ settings = [sensitivity |-> DefaultSensitivity,
                 cooldown |-> DefaultCooldown,
                 targetLaps |-> DefaultTargetLaps, targetDuration |-> 0]
  /\ isMonitoring = FALSE
  /\ laps = <<>>
  /\ lastActivity = 0
  /\ updateQueue = <<>>
  /\ lastTriggerRef = NeverTriggered
  /\ handlerProps = [isMonitoring |-> FALSE, settings |-> settings]
  /\ loopProps = [isMonitoring |-> FALSE]
  /\ toWorker = HandlerEffect(<<>>, FALSE)
  /\ toMain = <<>>
  /\ prevPixels = Null
  /\ refPixels = Null
  /\ posted = 0
  /\ window = 0
  /\ lastEvent = NoEvent
  /\ eventsSinceTick = 0
  /\ ticks = Kickoff(<<>>)

Init ==
  /\ EngineInit
  /\ geometry = [axis |-> "x", tripwire |-> DefaultTripwireX,
                 detection |-> DefaultDetectionWidth, canvas |-> IdealWidth,
                 computed |-> FALSE, zone |-> 0, sample |-> 0]
  /\ scoring = NotScored
  /\ stats = NoStats

Next ==
  \/ \E i \in DOMAIN streams : SetupCameraResolve(i)
  \/ \E i \in DOMAIN streams : SetupCameraReject(i)
  \/ VideoReady
  \/ \E i \in DOMAIN ticks, ctx \in BOOLEAN :
       \E s \in ZoneContents(ctx) : ProcessFrame(i, ctx, s)
  \/ WorkerOnMessage
  \/ HandleMessage
  \/ Render
  \/ ToggleMonitoring
  \/ ResetLaps
  \/ \E v \in SensitivityValues : UpdateSetting("sensitivity", v)
  \/ \E v \in CooldownValues : UpdateSetting("cooldown", v)
  \/ \E v \in TargetLapsValues : UpdateSetting("targetLaps", v)
  \/ Advance

Spec == Init /\ [][Next]_vars


\* The engine's life cycle: one mount as in Init, then StrictMode's second
\* set-up of the effects, the getUserMedia calls settling in any order, and
\* the component being removed.
LifecycleNext ==
  \/ \E i \in DOMAIN streams : SetupCameraResolve(i)
  \/ \E i \in DOMAIN streams : SetupCameraReject(i)
  \/ VideoReady
  \/ StrictRemount
  \/ Unmount
  \/ Advance

LifecycleSpec == Init /\ [][LifecycleNext]_vars

\* The differencer and the gate as functions of their inputs: a worker
\* holding any baseline is handed a batch of messages while the engine is in
\* any gate state, and the scores are applied.
Pixel(v) == <<v, v, v, 255>>
Black1 == Pixel(0)
White1 == Pixel(255)
Black2 == Pixel(0) \o Pixel(0)
Split2 == Pixel(0) \o Pixel(255)
Black5 == Pixel(0) \o Pixel(0) \o Pixel(0) \o Pixel(0) \o Pixel(0)
Mixed5 == Pixel(255) \o Pixel(0) \o Pixel(255) \o Pixel(0) \o Pixel(0)
\* A zone one pixel wide and two high; the other zones are one pixel high.
Tall2 == Pixel(255) \o Pixel(0)
PipelineBuffers == <<Black1, White1, Black2, Split2, Black5, Mixed5, <<>>, Tall2>>
BufferHeight(c) == IF PipelineBuffers[c] = Tall2 THEN 2 ELSE 1
BufferWidth(c) == (Len(PipelineBuffers[c]) \div 4) \div BufferHeight(c)

\* Message number k of a batch posted while base is the baseline of the
\* messages before it: RESET for choice 0, else PROCESS with the buffer chosen.
BatchMsg(c, k, base) ==
  IF c = 0 THEN ResetMsg
  ELSE [type |-> "PROCESS", data |-> PipelineBuffers[c],
        width |-> BufferWidth(c), height |-> BufferHeight(c),
        id |-> k, win |-> 1, ref |-> WorkerDiff(base, PipelineBuffers[c])]

\* The baseline left by the message of choice c.
BatchBaseline(c, base) ==
  IF c = 0 THEN Null ELSE [data |-> NextBaseline(base, PipelineBuffers[c])]

\* The messages k.. of the batch of choices f, posted in order, and the
\* baseline the whole batch leaves.
RECURSIVE Batch(_, _, _)
Batch(f, k, base) ==
  IF k > Len(f) THEN <<>>
  ELSE <<BatchMsg(f[k], k, base)>> \o Batch(f, k + 1, BatchBaseline(f[k], base))
RECURSIVE BatchEnd(_, _, _)
BatchEnd(f, k, base) ==
  IF k > Len(f) THEN base ELSE BatchEnd(f, k + 1, BatchBaseline(f[k], base))

\* The engine running with the camera live, in the gate state given:
\* monitoring flag, last trigger and sensitivity.
EngineRunningWith(mon, last, s) ==
  /\ now = StartTime
  /\ camera = "live"
  /\ engine = "mounted"
  /\ streams = <<"live">>
  /\ streamRef = 1
  /\ videoReady = TRUE
  /\ error = NoError
  /\ settings = s
  /\ isMonitoring = mon
  /\ laps = <<>>
  /\ lastActivity = 0
  /\ updateQueue = <<>>
  /\ lastTriggerRef = last
  /\ handlerProps = [isMonitoring |-> mon, settings |-> settings]
  /\ loopProps = [isMonitoring |-> mon]
  /\ window = 1
  /\ lastEvent = [ts |-> last, lag |-> 0]
  /\ eventsSinceTick = 0
  /\ ticks = Kickoff(<<>>)
  /\ geometry = [axis |-> "x", tripwire |-> DefaultTripwireX,
                 detection |-> DefaultDetectionWidth, canvas |-> IdealWidth,
                 computed |-> FALSE, zone |-> 0, sample |-> 0]
  /\ scoring = NotScored
  /\ stats = NoStats

\* The same with the default settings but for the sensitivity.
EngineRunning(mon, last, sens) ==
  EngineRunningWith(mon, last, [sensitivity |-> sens, cooldown |-> DefaultCooldown,
                                targetLaps |-> DefaultTargetLaps, targetDuration |-> 0])

\* Sensitivities explored with the differencer: both ends of the slider and
\* the default.
PipelineSensitivities == {MinSensitivity, DefaultSensitivity, MaxSensitivity}

PipelineInit ==
  \E n \in 1..MaxBatch, mon \in BOOLEAN, last \in {0, StartTime},
     sens \in PipelineSensitivities :
    \E f \in [1..n -> 0..Len(PipelineBuffers)], c \in 0..Len(PipelineBuffers) :
      /\ EngineRunning(mon, last, sens)
      /\ toWorker = Batch(f, 1, BatchBaseline(c, Null))
      /\ toMain = <<>>
      /\ prevPixels = IF c = 0 THEN Null
                      ELSE [data |-> PipelineBuffers[c], width |-> BufferWidth(c),
                            height |-> BufferHeight(c), win |-> 1, id |-> 0]
      /\ refPixels = BatchEnd(f, 1, BatchBaseline(c, Null))
      /\ posted = n

PipelineNext == WorkerOnMessage \/ HandleMessage

PipelineSpec == PipelineInit /\ [][PipelineNext]_vars

\* The gate as a function of its inputs: one score, of any whole value up
\* to ScoreCeiling or the largest possible, is applied at any sensitivity of
\* the slider in any gate state.
GateScores == {[num |-> n, den |-> 1] : n \in (0..ScoreCeiling) \cup {MaxScore}}

GateInit ==
  \E mon \in BOOLEAN, last \in {0, StartTime},
     sens \in MinSensitivity..MaxSensitivity, score \in GateScores :
    /\ EngineRunning(mon, last, sens)
    /\ toWorker = <<>>
    /\ toMain = <<[diff |-> score, id |-> 1, win |-> 1, ref |-> score,
                   fresh |-> FALSE, same |-> FALSE,
                   mismatch |-> FALSE, reshaped |-> FALSE]>>
    /\ prevPixels = [data |-> Black1, width |-> 1, height |-> 1, win |-> 1, id |-> 1]
    /\ refPixels = [data |-> Black1]
    /\ posted = 1

GateSpec == GateInit /\ [][HandleMessage]_vars

\* Delivery of the messages: the engine runs with the camera live, the
\* frame loop ticks, monitoring is toggled and settings are changed (each
\* change binds the handler again), the clock standing still.  The worker
\* handles every message posted to it and the main thread every message the
\* worker posts: both are tasks of event loops that keep running.
DeliveryInit ==
  /\ EngineRunning(FALSE, NeverTriggered, DefaultSensitivity)
  /\ toWorker = HandlerEffect(<<>>, FALSE)
  /\ toMain = <<>>
  /\ prevPixels = Null
  /\ refPixels = Null
  /\ posted = 0

DeliveryNext ==
  \/ \E i \in DOMAIN ticks, ctx \in BOOLEAN :
       \E s \in ZoneContents(ctx) : ProcessFrame(i, ctx, s)
  \/ WorkerOnMessage
  \/ HandleMessage
  \/ Render
  \/ ToggleMonitoring
  \/ \E v \in SensitivityValues : UpdateSetting("sensitivity", v)
  \/ \E v \in CooldownValues : UpdateSetting("cooldown", v)
  \/ \E v \in TargetLapsValues : UpdateSetting("targetLaps", v)

FairSpec ==
  /\ DeliveryInit
  /\ [][DeliveryNext]_vars
  /\ WF_vars(WorkerOnMessage)
  /\ WF_vars(HandleMessage)

\* The zone geometry as a function of its inputs.
GeometryInit == EngineInit /\ geometry \in GeometryInputs /\ scoring = NotScored /\ stats = NoStats
GeometrySpec == GeometryInit /\ [][CalculateGeometry]_vars

\* The stride of the differencer as a function of the buffer length.
\* Sessions: the App with a lap target and a time target fixed for the
\* session, the engine running with the camera live, and qualifying scores
\* of the worker arriving at any time.  The interval of the time-based
\* completion effect keeps running while the effect is set up, so its
\* callback is taken when it has something to do.
SessionTargetLaps == {0, 1, 2}
SessionTargetDurations == {0, 1}

SessionScore(k) ==
  [diff |-> [num |-> MaxScore, den |-> 1], id |-> k, win |-> 1,
   ref |-> [num |-> MaxScore, den |-> 1], fresh |-> FALSE, same |-> FALSE,
   mismatch |-> FALSE, reshaped |-> FALSE]

SessionInit ==
  \E tl \in SessionTargetLaps, td \in SessionTargetDurations, cd \in CooldownValues :
    /\ EngineRunningWith(FALSE, NeverTriggered,
                         [sensitivity |-> DefaultSensitivity, cooldown |-> cd,
                          targetLaps |-> tl, targetDuration |-> td])
    /\ toWorker = <<>>
    /\ toMain = [k \in 1..MaxScores |-> SessionScore(k)]
    /\ prevPixels = [data |-> Black1, width |-> 1, height |-> 1, win |-> 1, id |-> MaxScores]
    /\ refPixels = [data |-> Black1]
    /\ posted = 0

\* Date.now() moves on during a session.
SessionAdvance ==
  /\ now < StartTime + SessionHorizon * TimeStep
  /\ now' = now + TimeStep
  /\ UNCHANGED <<geometry, scoring, stats, refPixels, cameraVars, appVars, lastTriggerRef, closureVars, ticks, toWorker,
                 workerVars, posted, histVars>>

SessionNext ==
  \/ HandleMessage
  \/ Render
  \/ ToggleMonitoring
  \/ ResetLaps
  \/ CheckInterval
  \/ SessionAdvance

SessionSpec == SessionInit /\ [][SessionNext]_vars /\ WF_vars(CheckInterval)

\* The statistics as a function of the lap list: a start lap followed by up
\* to MaxStatLaps laps whose durations are the gaps chosen (0 for a trigger
\* in the millisecond of the lap before), or no lap at all, with any of the
\* lap targets.
StatGaps == {0, 1, 2, 5}

RECURSIVE LapsOfGaps(_, _)
LapsOfGaps(gaps, ls) ==
  IF gaps = <<>> THEN ls
  ELSE LapsOfGaps(Tail(gaps), Append(ls, NewLap(ls, ls[Len(ls)].timestamp + Head(gaps))))

StatLapLists ==
  {<<>>} \cup
  UNION {{LapsOfGaps(g, <<[timestamp |-> StartTime, duration |-> 0]>>) :
            g \in [1..n -> StatGaps]} : n \in 0..MaxStatLaps}

StatsInputs ==
  {[laps |-> ls, targetLaps |-> tl, computed |-> FALSE, value |-> Stats(<<>>, 0)] :
     ls \in StatLapLists, tl \in SessionTargetLaps}

\* The stats memo is evaluated for the lap list and the lap target rendered.
ComputeStats ==
  /\ ~stats.computed
  /\ stats' = [stats EXCEPT !.computed = TRUE,
                            !.value = Stats(stats.laps, stats.targetLaps)]
  /\ UNCHANGED <<now, geometry, scoring, refPixels, cameraVars, appVars, lastTriggerRef, closureVars, ticks,
                 toWorker, workerVars, posted, histVars>>

StatsInit ==
  /\ EngineInit
  /\ geometry = [axis |-> "x", tripwire |-> DefaultTripwireX,
                 detection |-> DefaultDetectionWidth, canvas |-> IdealWidth,
                 computed |-> FALSE, zone |-> 0, sample |-> 0]
  /\ scoring = NotScored
  /\ stats \in StatsInputs
StatsSpec == StatsInit /\ [][ComputeStats]_vars

StrideInit ==
  /\ EngineInit
  /\ geometry = [axis |-> "x", tripwire |-> DefaultTripwireX,
                 detection |-> DefaultDetectionWidth, canvas |-> IdealWidth,
                 computed |-> FALSE, zone |-> 0, sample |-> 0]
  /\ scoring \in ScoringInputs
  /\ stats = NoStats
StrideSpec == StrideInit /\ [][ScoreBuffer]_vars

\* ---------------------------------------------------------------- claims
\* A step in which onMotionTriggered is called, and the timestamp it is given.
FireStep == Len(updateQueue') = Len(updateQueue) + 1
DeliveredTs == updateQueue'[Len(updateQueue')]
\* A step in which the main thread handles a score message.
ApplyStep == toMain # <<>> /\ toMain' = Tail(toMain)
\* A step in which the worker handles a message.
WorkerStep == toWorker # <<>> /\ toWorker' = Tail(toWorker)
\* A step in which a message is posted to the worker, and that message.
PostStep == Len(toWorker') = Len(toWorker) + 1
PostedMsg == toWorker'[Len(toWorker')]

\* C1: every trigger event comes at least the cooldown in effect after the
\* previous trigger event; no score applied inside the cooldown fires.
C1_CooldownEnforced ==
  [][FireStep /\ lastEvent # NoEvent
       => DeliveredTs - lastEvent.ts >= settings.cooldown]_vars

\* Two trigger events were delivered, the second at least a cooldown later.
C1_Witness ==
  /\ Len(updateQueue) = 2
  /\ updateQueue[2] - updateQueue[1] >= settings.cooldown

\* C2: an applied score fires iff score > 105 - sensitivity, now - lastTrigger
\* >= cooldown and monitoring is on; a fire sets lastTrigger to now and
\* delivers exactly one event with timestamp now; a non-fire changes neither.
C2_GateDecision ==
  [][ApplyStep =>
       LET m == Head(toMain)
           fires == /\ m.diff.num > (105 - settings.sensitivity) * m.diff.den
                    /\ now - lastTriggerRef >= settings.cooldown
                    /\ isMonitoring
       IN IF fires
          THEN lastTriggerRef' = now /\ updateQueue' = Append(updateQueue, now)
          ELSE UNCHANGED <<lastTriggerRef, updateQueue>>]_vars

\* A score fired exactly one cooldown after the previous fire.
C2_Witness ==
  /\ Len(updateQueue) = 2
  /\ updateQueue[2] - updateQueue[1] = settings.cooldown
  /\ lastTriggerRef = updateQueue[2]

\* C3: the score computed for the first sample after a baseline reset (start,
\* RESET, length mismatch) is 0, and applying it never fires.
C3_FirstScoreAfterResetIsZero ==
  [][/\ (WorkerStep /\ Len(toMain') = Len(toMain) + 1
           /\ toMain'[Len(toMain')].fresh) => toMain'[Len(toMain')].diff.num = 0
     /\ (ApplyStep /\ Head(toMain).fresh)
           => UNCHANGED <<lastTriggerRef, updateQueue>>]_vars

\* A score computed right after a length mismatch awaits the gate, which is
\* at its most sensitive, monitoring and outside cooldown.
C3_Witness ==
  /\ toMain # <<>>
  /\ Head(toMain).fresh
  /\ Head(toMain).id > 1
  /\ prevPixels # Null
  /\ Len(prevPixels.data) = Len(SampleD.data)
  /\ isMonitoring
  /\ settings.sensitivity = MaxSensitivity
  /\ ~OnCooldown(now, lastTriggerRef, settings.cooldown)

IsProcess(e) == e.type = "PROCESS"
IsReset(e) == e.type = "RESET"

\* In the channel to the worker, PROCESS messages of different monitoring
\* windows have a RESET between them.
WindowsSeparated(queue) ==
  \A i, j \in DOMAIN queue :
    (i < j /\ IsProcess(queue[i]) /\ IsProcess(queue[j])
       /\ queue[i].win # queue[j].win)
    => \E k \in (i + 1)..(j - 1) : IsReset(queue[k])

\* A baseline held by the worker is followed by a RESET before any PROCESS
\* message of another monitoring window.
BaselineSeparated(prev, queue) ==
  prev # Null =>
    \A j \in DOMAIN queue :
      (IsProcess(queue[j]) /\ queue[j].win # prev.win)
      => \E k \in 1..(j - 1) : IsReset(queue[k])

\* C4: the RESET of a stop reaches the worker after every PROCESS of the
\* stopped window and before every PROCESS of the resumed one, so a sample is
\* only ever differenced against a baseline of its own monitoring window.
C4_NoStaleBaselineAfterResume ==
  [][/\ WindowsSeparated(toWorker')
     /\ BaselineSeparated(prevPixels', toWorker')
     /\ (WorkerStep /\ IsProcess(Head(toWorker)) /\ prevPixels # Null
           /\ Len(prevPixels.data) = Len(Head(toWorker).data))
        => prevPixels.win = Head(toWorker).win]_vars

\* The worker holds a baseline of a resumed window while a score of the
\* window before it is still on its way to the main thread.
C4_Witness ==
  /\ prevPixels # Null
  /\ prevPixels.win = 2
  /\ toMain # <<>>
  /\ Head(toMain).win = 1

\* C5: while monitoring is off the frame loop can still tick, no tick posts a
\* PROCESS message and no applied score delivers a trigger event.
C5_DisabledIsSilent ==
  /\ [](~isMonitoring =>
          ENABLED (\E i \in DOMAIN ticks, ctx \in BOOLEAN, s \in Samples : ProcessFrame(i, ctx, s)))
  /\ [][~isMonitoring =>
          /\ (PostStep => IsReset(PostedMsg))
          /\ ~FireStep]_vars

\* Monitoring is off, the video is ready, and a score that exceeds the
\* threshold outside cooldown is waiting to be applied.
C5_Witness ==
  /\ ~isMonitoring
  /\ videoReady
  /\ toMain # <<>>
  /\ Exceeds(Head(toMain).diff, Threshold(settings.sensitivity))
  /\ ~OnCooldown(now, lastTriggerRef, settings.cooldown)

\* C6 as claimed: a RESET is posted exactly on the steps that turn monitoring
\* from on to off.
C6_ResetOnlyOnDisable ==
  [][(PostStep /\ IsReset(PostedMsg)) <=> (isMonitoring /\ ~isMonitoring')]_vars

\* C6 amended: a RESET is posted exactly when the handler effect runs with
\* monitoring off: on mount, on every on-to-off transition, and on every
\* change of sensitivity, cooldown or target laps (trigger callback) while
\* monitoring is off; never while monitoring is on.
C6_ResetWhenEffectRunsDisabled ==
  /\ toWorker = <<ResetMsg>>
  /\ [][(PostStep /\ IsReset(PostedMsg))
          <=> /\ ~isMonitoring'
              /\ \/ isMonitoring
                 \/ settings'.sensitivity # settings.sensitivity
                 \/ settings'.cooldown # settings.cooldown
                 \/ settings'.targetLaps # settings.targetLaps]_vars

\* Monitoring was on and is off, and the RESET of that stop is the last
\* message posted.
C6_Witness ==
  /\ ~isMonitoring
  /\ window >= 1
  /\ toWorker # <<>>
  /\ IsReset(toWorker[Len(toWorker)])
  /\ settings.cooldown = DefaultCooldown
  /\ settings.sensitivity = DefaultSensitivity
  /\ settings.targetLaps = DefaultTargetLaps

\* C7 as claimed: at most one trigger event between two consecutive ticks,
\* and the delivered timestamps never decrease.
C7_AtMostOnePerTick ==
  /\ [](eventsSinceTick <= 1)
  /\ [][FireStep => DeliveredTs >= lastEvent.ts]_vars

\* C7 amended: each applied score message delivers at most one trigger event
\* (several may be delivered between two ticks), and the delivered timestamps
\* never decrease.
C7_AtMostOnePerScore ==
  [][/\ Len(updateQueue') <= Len(updateQueue) + 1
     /\ FireStep => (ApplyStep /\ DeliveredTs >= lastEvent.ts)]_vars

\* Two trigger events were delivered with no tick between them.
C7_Witness == eventsSinceTick = 2

\* PROCESS ids grow along the pipeline: baseline, scores in flight, samples
\* in flight.
PipelineOrdered ==
  /\ \A i, j \in DOMAIN toMain : i < j => toMain[i].id < toMain[j].id
  /\ \A i, j \in DOMAIN toWorker :
       (i < j /\ IsProcess(toWorker[i]) /\ IsProcess(toWorker[j]))
       => toWorker[i].id < toWorker[j].id
  /\ \A i \in DOMAIN toMain, j \in DOMAIN toWorker :
       IsProcess(toWorker[j]) => toMain[i].id < toWorker[j].id

\* C8: scores are applied in the order their samples were submitted, and a
\* tick submits its sample however many samples are still unanswered.
C8_OrderedAndNonBlocking ==
  /\ [](PipelineOrdered)
  /\ []((videoReady /\ isMonitoring /\ posted < MaxPosts)
          => ENABLED (ProcessFrame(1, TRUE, SampleA) /\ PostStep))
  /\ [][ApplyStep =>
          /\ \A i \in DOMAIN toMain' : Head(toMain).id < toMain'[i].id
          /\ \A j \in DOMAIN toWorker' :
               IsProcess(toWorker'[j]) => Head(toMain).id < toWorker'[j].id]_vars

\* Two samples are waiting for the worker while a score is waiting for the
\* main thread.
C8_Witness ==
  /\ Len(toWorker) >= 2
  /\ IsProcess(toWorker[Len(toWorker)])
  /\ IsProcess(toWorker[Len(toWorker) - 1])
  /\ toMain # <<>>

\* C9: a fire is decided and stamped with the clock, sensitivity, cooldown
\* and monitoring flag current when the score is applied, not those of the
\* moment its sample was submitted; fires stay a cooldown apart.
C9_GateUsesApplyTime ==
  [][FireStep =>
       /\ ApplyStep
       /\ DeliveredTs = now
       /\ lastTriggerRef' = now
       /\ now - lastTriggerRef >= settings.cooldown
       /\ Head(toMain).diff.num > (105 - settings.sensitivity) * Head(toMain).diff.den
       /\ isMonitoring
       /\ (lastEvent # NoEvent => now - lastEvent.ts >= settings.cooldown)]_vars

\* A score fired, after the clock had moved on, while a later sample was
\* already in flight.
C9_Witness == lastEvent # NoEvent /\ lastEvent.lag >= 1 /\ lastEvent.ts > StartTime

\* C10 as claimed: after a camera failure the error is set and monitoring is
\* off.
C10_FailureForcesMonitoringOff ==
  camera = "failed" => (error # NoError /\ ~isMonitoring)

\* C10 amended: a camera failure sets the error state and leaves the
\* monitoring flag as it was (the caller can still switch it on); with the
\* camera failed no sample is ever posted and no trigger event delivered.
C10_FailureIsSurfacedOnly ==
  /\ [](camera = "failed" =>
          /\ error # NoError
          /\ ~videoReady
          /\ \A i \in DOMAIN toWorker : IsReset(toWorker[i])
          /\ toMain = <<>>
          /\ prevPixels = Null
          /\ lastEvent = NoEvent)
  /\ [][(camera # "failed" /\ camera' = "failed")
          => UNCHANGED isMonitoring]_vars

\* The camera failed and monitoring is on.
C10_Witness == camera = "failed" /\ isMonitoring /\ error # NoError

\* C11: for the one mount there is exactly one getUserMedia call; once it has
\* failed the failure is reported once and nothing about the camera changes
\* any more (no retry); while the video has no frame no sample is in flight,
\* no score was produced and no trigger was delivered.
C11_FailureIsTerminal ==
  /\ [](Len(streams) = 1)
  /\ [][streams[1] = "failed"
          => UNCHANGED <<streams, streamRef, camera, videoReady, error>>]_vars
  /\ [][error' # error => (error = NoError /\ streams'[1] = "failed")]_vars
  /\ [](~videoReady =>
          /\ \A i \in DOMAIN toWorker : IsReset(toWorker[i])
          /\ toMain = <<>>
          /\ updateQueue = <<>>
          /\ lastEvent = NoEvent)

\* The only getUserMedia call failed; since then the clock moved on and
\* monitoring was switched on, off and on again.
C11_Witness ==
  /\ streams = <<"failed">>
  /\ now > StartTime
  /\ window = 2
  /\ isMonitoring

\* C12: every acquired stream that is still running is held by a mounted
\* engine (so that tearing the engine down stops it); none is left running
\* with nobody holding it.
C12_EveryStreamReleased ==
  \A i \in DOMAIN streams :
    streams[i] = "live" => (engine = "mounted" /\ streamRef = i)

\* C13: for every tripwire position in 0..100, detection width in 1..50 or
\* height in 1..100, and every canvas of at least 4 pixels, the rectangle
\* computed (and the whole-pixel rectangle getImageData reads) starts at or
\* after 0, ends at or before the canvas size and is at least 2 pixels long.
C13_ZoneInsideFrame ==
  geometry.computed =>
    /\ 0 <= geometry.sample
    /\ geometry.sample + 2 * geometry.zone <= 200 * geometry.canvas
    /\ geometry.zone >= 200
    /\ 0 <= ToLong(geometry.sample, 200)
    /\ ToLong(geometry.sample, 200) + ToLong(geometry.zone, 100) <= geometry.canvas
    /\ ToLong(geometry.zone, 100) >= 2

\* The smallest canvas with the widest zone pushed against the far edge, the
\* two-pixel floor being what sets its size.
C13_Witness ==
  /\ geometry.computed
  /\ geometry.canvas = 4
  /\ geometry.tripwire = MaxTripwire
  /\ geometry.detection = 1
  /\ geometry.zone = 200
  /\ geometry.sample = 200 * geometry.canvas - 2 * geometry.zone

C15_IdenticalBuffersScoreZero ==
  /\ [](\A i \in DOMAIN toMain : toMain[i].same => toMain[i].diff.num = 0)
  /\ [](\A s \in MinSensitivity..MaxSensitivity : ~Exceeds(Zero, Threshold(s)))
  /\ [][(ApplyStep /\ Head(toMain).same) => ~FireStep]_vars

\* The score of a five-pixel buffer equal to the baseline awaits the gate,
\* which is at the highest sensitivity, monitoring and outside cooldown.
C15_Witness ==
  /\ toMain # <<>>
  /\ Head(toMain).same
  /\ prevPixels.data = Mixed5
  /\ settings.sensitivity = MaxSensitivity
  /\ isMonitoring
  /\ now - lastTriggerRef >= settings.cooldown

\* C16: a PROCESS message whose buffer length differs from the baseline's is
\* scored 0 without any comparison, its score does not fire, and the
\* baseline becomes exactly that buffer; a following buffer of the same
\* length is differenced against it.
C16_LengthMismatchResets ==
  /\ [](\A i \in DOMAIN toMain : toMain[i].mismatch => toMain[i].diff.num = 0)
  /\ [][(WorkerStep /\ IsProcess(Head(toWorker)) /\ prevPixels # Null)
          => IF Len(prevPixels.data) # Len(Head(toWorker).data)
             THEN /\ prevPixels'.data = Head(toWorker).data
                  /\ toMain'[Len(toMain')].mismatch
             ELSE /\ ~toMain'[Len(toMain')].mismatch
                  /\ toMain'[Len(toMain')].diff
                       = NormalizedDiff(Head(toWorker).data, prevPixels.data)]_vars
  /\ [][(ApplyStep /\ Head(toMain).mismatch) => ~FireStep]_vars

\* A buffer of another length than the baseline was scored 0, and the white
\* pixel that followed was scored 765 against it.
C16_Witness ==
  /\ Len(toMain) = 2
  /\ toMain[1].mismatch
  /\ toMain[1].diff.num = 0
  /\ ~toMain[2].fresh
  /\ toMain[2].diff = [num |-> MaxScore, den |-> 1]
  /\ prevPixels.data = White1

\* The pixels (0-based) the comparison visits in a buffer of len bytes, and
\* the sum over a set of pixels of the absolute R, G and B differences.
VisitedPixels(len) == {k \in 0..(len \div 4 - 1) : k % Skip(len) = 0}
RECURSIVE SumOfDifferences(_, _, _)
SumOfDifferences(pixels, prev, ks) ==
  IF ks = {} THEN 0
  ELSE LET k == CHOOSE x \in ks : TRUE
       IN Abs(pixels[4 * k + 1] - prev[4 * k + 1])
          + Abs(pixels[4 * k + 2] - prev[4 * k + 2])
          + Abs(pixels[4 * k + 3] - prev[4 * k + 3])
          + SumOfDifferences(pixels, prev, ks \ {k})

\* C17: against a baseline of equal length the score is the sum over the
\* visited pixels of |dR| + |dG| + |dB| divided by the number of visited
\* pixels, 0 when none is visited; every score lies in 0..765; a score of
\* 765 fires at sensitivity 100 when monitoring is on outside cooldown.
C17_ScoreIsMeanAbsoluteDifference ==
  /\ [](\A i \in DOMAIN toMain :
          /\ toMain[i].diff.den >= 1
          /\ 0 <= toMain[i].diff.num
          /\ toMain[i].diff.num <= MaxScore * toMain[i].diff.den)
  /\ [][(/\ WorkerStep /\ IsProcess(Head(toWorker)) /\ prevPixels # Null
         /\ Len(prevPixels.data) = Len(Head(toWorker).data))
          => LET pixels == Head(toWorker).data
                 ks == VisitedPixels(Len(pixels))
                 score == toMain'[Len(toMain')].diff
             IN IF ks = {} THEN score.num = 0
                ELSE score.num * Cardinality(ks)
                       = SumOfDifferences(pixels, prevPixels.data, ks) * score.den]_vars
  /\ [][(/\ ApplyStep
         /\ Head(toMain).diff.num = MaxScore * Head(toMain).diff.den
         /\ settings.sensitivity = MaxSensitivity
         /\ isMonitoring
         /\ now - lastTriggerRef >= settings.cooldown)
          => (FireStep /\ DeliveredTs = now)]_vars

\* A white pixel was handed to a worker holding a black pixel, and its score
\* fired at sensitivity 100.
C17_Witness ==
  /\ posted = 1
  /\ prevPixels # Null
  /\ prevPixels.data = White1
  /\ prevPixels.id = 1
  /\ toMain = <<>>
  /\ settings.sensitivity = MaxSensitivity
  /\ updateQueue = <<StartTime>>

\* The gate would reject a qualifying score for cooldown.
Cooling == OnCooldown(now, lastTriggerRef, handlerProps.settings.cooldown)

\* C18 as claimed: while the clock stands still no command (a settings
\* change, a toggle, a lap reset) takes the gate out of cooling.
C18_OnlyTimeEndsCooling ==
  [][(Cooling /\ now' = now /\ lastTriggerRef' = lastTriggerRef) => Cooling']_vars

\* C18 amended: lastTriggerRef changes only when the gate fires; while the
\* clock stands still the gate leaves cooling only when the cooldown setting
\* is lowered: no toggle, sensitivity change, lap reset or render ends it.
C18_TimeOrShorterCooldownEndsCooling ==
  /\ [][lastTriggerRef' # lastTriggerRef => (FireStep /\ lastTriggerRef' = now)]_vars
  /\ [][(Cooling /\ now' = now /\ ~Cooling')
          => settings'.cooldown < settings.cooldown]_vars

\* The gate fired in the first monitoring window and is still cooling after
\* monitoring was stopped and started again.
C18_Witness ==
  /\ Cooling
  /\ lastTriggerRef = StartTime
  /\ window = 2
  /\ isMonitoring
  /\ posted = MaxPosts
  /\ toWorker # <<>>
  /\ IsReset(toWorker[Len(toWorker)])

\* C20: after every PROCESS message, scored or treated as a reset, the
\* worker's baseline is the whole buffer of that message, byte for byte, so
\* that it reflects the last processed sample only.
C20_BaselineIsLastWholeBuffer ==
  /\ [][(WorkerStep /\ IsProcess(Head(toWorker)))
          => /\ prevPixels' # Null
             /\ prevPixels'.data = Head(toWorker).data
             /\ prevPixels'.id = Head(toWorker).id]_vars
  /\ [][prevPixels' # prevPixels => WorkerStep]_vars

\* A five-pixel buffer was scored against a black one on its two visited
\* pixels; the baseline now holds it whole, the unvisited white pixel
\* included.
C20_Witness ==
  /\ toMain # <<>>
  /\ toMain[Len(toMain)].diff = [num |-> MaxScore, den |-> 2]
  /\ prevPixels # Null
  /\ prevPixels.data = Mixed5
  /\ prevPixels.data[9] = 255

\* The worker has caught up with every message posted to it.
CaughtUp == toWorker = <<>>

\* C19: the worker pipeline emits the trigger events a differencer run
\* synchronously inside postMessage, followed by the same gate at the same
\* application times, would emit: every score that reaches the gate is the
\* score the synchronous differencer returned when the sample was
\* submitted, the gate's decision and timestamp are those it takes for that
\* score, and once the worker has caught up both hold the same baseline.
C19_SameAsSynchronousReference ==
  /\ [](\A i \in DOMAIN toMain : toMain[i].diff = toMain[i].ref)
  /\ [](CaughtUp => IF refPixels = Null THEN prevPixels = Null
                    ELSE prevPixels # Null /\ prevPixels.data = refPixels.data)
  /\ [][ApplyStep =>
          IF Fires(Head(toMain).ref, now, lastTriggerRef, settings, isMonitoring)
          THEN FireStep /\ DeliveredTs = now /\ lastTriggerRef' = now
          ELSE UNCHANGED <<lastTriggerRef, updateQueue>>]_vars

\* A trigger event was delivered while a later sample, different from the
\* one the worker holds, was still waiting for the worker.
C19_Witness ==
  /\ updateQueue # <<>>
  /\ lastEvent.lag >= 1
  /\ toWorker # <<>>
  /\ IsProcess(Head(toWorker))
  /\ refPixels # Null
  /\ prevPixels # Null
  /\ refPixels.data # prevPixels.data

\* C21: a sample whose zone has another width or height than the zone of the
\* baseline is scored 0 (the baseline counts as cleared), also when the two
\* buffers have the same number of bytes.
C21_DimensionChangeResets ==
  \A i \in DOMAIN toMain : toMain[i].reshaped => toMain[i].diff.num = 0

\* The stride and the number of visited pixels the claim gives for a buffer
\* of len bytes.
ClaimedStride(len) == IF len <= 50000 THEN 4 ELSE 16
ClaimedVisits(len) ==
  ((len \div 4) + ClaimedStride(len) - 1) \div ClaimedStride(len)

\* C22: a buffer of at most 50000 bytes is compared on every 4th pixel, a
\* longer one on every 16th, from pixel 0 on: the number of pixels compared
\* is ceil(pixelCount / stride), a white pixel on the stride gives the score
\* 765 / that number, and a white pixel off the stride leaves the score at 0.
C22_AdaptiveStride ==
  scoring.computed =>
    LET stride == ClaimedStride(scoring.len)
        visits == ClaimedVisits(scoring.len)
        onStride == scoring.white >= 0 /\ scoring.white % stride = 0
    IN IF visits = 0 THEN scoring.score.num = 0
       ELSE /\ scoring.score.den = visits
            /\ scoring.score.num = IF onStride THEN MaxScore ELSE 0

\* A buffer of exactly 50000 bytes whose pixel 4 is white was scored over
\* 3125 pixels against the all-black baseline.
C22_Witness ==
  /\ scoring.computed
  /\ scoring.len = StrideLimit
  /\ scoring.white = 4
  /\ scoring.score = [num |-> MaxScore, den |-> 3125]

\* C23: before the first trigger the reference is so far in the past that no
\* cooldown of the slider reaches it: the first score above the threshold
\* applied while monitoring is on fires, whatever the cooldown and however
\* soon after the mount.
C23_FirstQualifyingScoreFires ==
  /\ [](lastEvent = NoEvent => now - lastTriggerRef >= MaxCooldown)
  /\ [][(/\ ApplyStep
         /\ lastEvent = NoEvent
         /\ Head(toMain).diff.num > (105 - settings.sensitivity) * Head(toMain).diff.den
         /\ isMonitoring)
          => (FireStep /\ DeliveredTs = now /\ lastTriggerRef' = now)]_vars

\* The first trigger was delivered with the clock still at the time of the
\* mount and the default cooldown of one second.
C23_Witness ==
  /\ now = StartTime
  /\ lastEvent.ts = StartTime
  /\ lastTriggerRef = StartTime
  /\ settings.cooldown = DefaultCooldown
  /\ Len(laps) = 2

\* C24: a tick that finds the video without a frame, or gets no drawing
\* context, posts nothing, leaves the worker, the gate, the monitoring flag
\* and the error state alone and schedules one further tick in its place; as
\* soon as the video has a frame the scheduled tick submits, nothing else
\* being needed.
C24_SkippedTickRetries ==
  /\ [][\A i \in DOMAIN ticks, ctx \in BOOLEAN :
          (ProcessFrame(i, ctx, SampleA) /\ ~(videoReady /\ ctx))
          => /\ UNCHANGED <<toWorker, posted, toMain, prevPixels, lastTriggerRef,
                            updateQueue, isMonitoring, error, camera, videoReady>>
             /\ Len(ticks') = Len(ticks)
             /\ ticks'[Len(ticks')] = "raf"]_vars
  /\ []((videoReady /\ loopProps.isMonitoring /\ posted < MaxPosts)
          => \A i \in DOMAIN ticks : ENABLED (ProcessFrame(i, TRUE, SampleB) /\ PostStep))

\* After a sample was submitted a tick got no drawing context: an animation
\* frame is scheduled in place of the video frame callback, no setting having
\* been touched, and the sample submitted before is still on its way.
C24_Witness ==
  /\ videoReady
  /\ ticks = <<"raf">>
  /\ loopProps.isMonitoring
  /\ window = 1
  /\ Len(laps) = 1
  /\ updateQueue = <<>>
  /\ toWorker # <<>>
  /\ IsProcess(toWorker[Len(toWorker)])
  /\ error = NoError

\* C25: while the engine is mounted exactly one call of processFrame is
\* scheduled, whatever the ticks did and however often the loop effect was
\* cleaned up and set up again.
C25_ExactlyOneTickPending == engine = "mounted" => Len(ticks) = 1

\* The loop effect was set up again (the cooldown was changed) after a tick
\* had submitted a sample: the one scheduled call is the kick-off's.
C25_Witness ==
  /\ ticks = <<"raf">>
  /\ settings.cooldown # DefaultCooldown
  /\ loopProps.isMonitoring
  /\ posted = 1
  /\ toWorker # <<>>
  /\ IsProcess(toWorker[Len(toWorker)])

\* The sample with id k is waiting for the worker; its score is waiting for
\* the main thread.
Submitted(k) == \E i \in DOMAIN toWorker : IsProcess(toWorker[i]) /\ toWorker[i].id = k
Scored(k) == \E i \in DOMAIN toMain : toMain[i].id = k

InFlight(k) == Submitted(k) \/ Scored(k)

\* C26: every sample submitted is eventually scored and its score eventually
\* handled by handleMessage: a sample leaves the channel to the worker only
\* by being handled there, which puts its score on the channel back; a score
\* leaves that channel only by being handled by handleMessage, however often
\* the handler is bound again in between; and no message stays for ever.
C26_EverySampleApplied ==
  /\ \A k \in 1..MaxPosts : InFlight(k) ~> ~InFlight(k)
  /\ [][/\ toWorker' # toWorker => (WorkerStep \/ toWorker' = Append(toWorker, PostedMsg))
        /\ (WorkerStep /\ IsProcess(Head(toWorker)))
             => /\ Len(toMain') = Len(toMain) + 1
                /\ toMain'[Len(toMain')].id = Head(toWorker).id
        /\ toMain' # toMain
             => (ApplyStep \/ (WorkerStep /\ SubSeq(toMain', 1, Len(toMain)) = toMain))]_vars

\* The score of a sample submitted while monitoring was on is on its way to
\* a handler that was bound again when monitoring was switched off.
C26_Witness ==
  /\ toMain # <<>>
  /\ ~handlerProps.isMonitoring
  /\ window = 2
  /\ Exceeds(Head(toMain).diff, Threshold(settings.sensitivity))

\* C27: the baseline changes only in steps of the worker and the last
\* trigger only when the main thread handles a score; a step of the worker
\* changes nothing the main thread holds; a sample posted is in the channel
\* and nowhere on the main thread; and what the worker posts carries a score
\* (a number, kept as a fraction) and no buffer.
C27_NothingShared ==
  /\ [](\A i \in DOMAIN toMain :
          /\ "data" \notin DOMAIN toMain[i]
          /\ DOMAIN toMain[i].diff = {"num", "den"}
          /\ toMain[i].diff.num \in Nat /\ toMain[i].diff.den \in Nat)
  /\ [][/\ prevPixels' # prevPixels => WorkerStep
        /\ lastTriggerRef' # lastTriggerRef => (ApplyStep /\ ~WorkerStep)
        /\ WorkerStep => UNCHANGED <<lastTriggerRef, updateQueue, settings, isMonitoring,
                                     laps, lastActivity, handlerProps, loopProps, ticks,
                                     posted, now>>
        /\ (PostStep /\ IsProcess(PostedMsg))
             => UNCHANGED <<prevPixels, toMain, lastTriggerRef, updateQueue>>]_vars

\* The worker holds a baseline, a different sample is waiting for it and a
\* score is waiting for the main thread, which has recorded a trigger.
C27_Witness ==
  /\ prevPixels # Null
  /\ toWorker # <<>>
  /\ IsProcess(Head(toWorker))
  /\ Head(toWorker).data # prevPixels.data
  /\ toMain # <<>>
  /\ Head(toMain).diff.num > 0

\* C29: handling a PROCESS message the worker posts exactly one score, the
\* one of that sample; handling a RESET it posts none; nothing else puts a
\* score on the channel.  So the scores applied or waiting are never more
\* than the samples submitted, and each answers a sample of its own.
C29_OneScorePerProcess ==
  /\ [][/\ WorkerStep =>
             IF IsProcess(Head(toWorker))
             THEN /\ Len(toMain') = Len(toMain) + 1
                  /\ SubSeq(toMain', 1, Len(toMain)) = toMain
                  /\ toMain'[Len(toMain')].id = Head(toWorker).id
             ELSE toMain' = toMain
        /\ ~WorkerStep => (toMain' = toMain \/ ApplyStep)]_vars
  /\ [](/\ \A i, j \in DOMAIN toMain : i # j => toMain[i].id # toMain[j].id
        /\ \A i \in DOMAIN toMain : toMain[i].id \in 1..posted /\ ~Submitted(toMain[i].id)
        /\ Len(toMain) + Cardinality({i \in DOMAIN toWorker : IsProcess(toWorker[i])})
             <= posted)

\* Three samples were submitted in one monitoring window: the score of the
\* first was applied, the scores of the other two are waiting.
C29_Witness ==
  /\ posted = 3
  /\ toWorker = <<>>
  /\ Len(toMain) = 2
  /\ toMain[1].id = 2
  /\ toMain[2].id = 3
  /\ prevPixels.id = 3

\* C28: a score whose sample was captured in an earlier monitoring window
\* fires no trigger: the main thread handling such a score requests no lap.
C28_NoStaleTrigger ==
  [][(ApplyStep /\ Head(toMain).win # window) => ~FireStep]_vars

\* C30: in the lap list timestamps never decrease in list order, the first
\* lap has duration 0, and the duration of every later lap is its timestamp
\* minus the timestamp of the lap before it.
C30_LapListConsistent ==
  /\ \A i \in 1..(Len(laps) - 1) : laps[i].timestamp <= laps[i + 1].timestamp
  /\ laps # <<>> => laps[1].duration = 0
  /\ \A i \in 2..Len(laps) : laps[i].duration = laps[i].timestamp - laps[i - 1].timestamp

\* A start opened the list and a trigger closed a lap that lasted.
C30_Witness ==
  /\ Len(laps) >= 2
  /\ laps[1].duration = 0
  /\ laps[Len(laps)].duration > 0
  /\ laps[Len(laps)].timestamp = lastTriggerRef

\* C31: with a lap target set for the session, the render of the trigger
\* that brings the completed laps to the target turns monitoring off, and
\* the completed laps never exceed the target.
C31_LapTargetNeverExceeded ==
  /\ [][(settings.targetLaps > 0 /\ laps' # laps
         /\ CompletedLaps(laps) < settings.targetLaps
         /\ CompletedLaps(laps') >= settings.targetLaps) => ~isMonitoring']_vars
  /\ [](settings.targetLaps > 0 => CompletedLaps(laps) <= settings.targetLaps)

\* Monitoring is switched on (only the Start button does so), and it is
\* switched off.
StartStep == ~isMonitoring /\ isMonitoring'
StopStep == isMonitoring /\ ~isMonitoring'

\* The session on screen is finished: the lap target is reached, or the time
\* target has elapsed since its first lap.
SessionFinished ==
  \/ settings.targetLaps > 0 /\ CompletedLaps(laps) >= settings.targetLaps
  \/ /\ settings.targetDuration > 0
     /\ Len(laps) > 0
     /\ now - laps[1].timestamp >= settings.targetDuration * 1000

\* C32: starting with no laps or with a finished session replaces the lap
\* list by one start lap (timestamp now, duration 0) and sets lastActivity
\* to now; starting with an unfinished session leaves both as they are;
\* a step that switches monitoring off (Stop button, lap target, time
\* target) with no trigger waiting to be rendered leaves both as they are.
C32_StartAndStopFrame ==
  [][/\ StartStep =>
          IF Len(laps) = 0 \/ SessionFinished
          THEN laps' = <<[timestamp |-> now, duration |-> 0]>> /\ lastActivity' = now
          ELSE laps' = laps /\ lastActivity' = lastActivity
     /\ (StopStep /\ updateQueue = <<>>) => UNCHANGED <<laps, lastActivity>>]_vars

\* A session with a time target was started again after its time was up: the
\* list holds the one start lap of the new session, taken after a trigger.
C32_Witness ==
  /\ isMonitoring
  /\ settings.targetDuration > 0
  /\ settings.targetLaps = 0
  /\ window = 3
  /\ laps = <<[timestamp |-> now, duration |-> 0]>>
  /\ lastActivity = now
  /\ lastTriggerRef > StartTime
  /\ now - StartTime >= settings.targetDuration * 1000

\* The lap list is emptied (only the Reset Laps button does so).
ResetStep == laps # <<>> /\ laps' = <<>>

\* C33: resetting the laps empties the list and sets lastActivity to 0 and
\* leaves the settings, the worker's baseline and lastTriggerRef as they
\* are, and the monitoring flag too (it goes off in the same render only
\* when a trigger waiting to be rendered reached the lap target; with none
\* waiting the flag stays and no RESET is posted).  Starting and stopping
\* leave lastTriggerRef as it is, so a score handled within the cooldown of
\* the last trigger fires nothing, whatever happened in between.
C33_ResetAndRestartKeepGate ==
  [][/\ ResetStep =>
          /\ lastActivity' = 0
          /\ UNCHANGED <<settings, prevPixels, lastTriggerRef>>
          /\ isMonitoring' = Rendered.isMonitoring
          /\ updateQueue = <<>> => UNCHANGED <<isMonitoring, toWorker>>
     /\ (StartStep \/ StopStep) => UNCHANGED lastTriggerRef
     /\ (ApplyStep /\ now - lastTriggerRef < handlerProps.settings.cooldown) => ~FireStep]_vars

\* Monitoring was stopped and started again and the laps were reset; a
\* qualifying score is waiting within the cooldown of the trigger of the
\* window before.
C33_Witness ==
  /\ isMonitoring
  /\ handlerProps.isMonitoring
  /\ window = 3
  /\ laps = <<>>
  /\ lastActivity = 0
  /\ lastTriggerRef # NeverTriggered
  /\ now - lastTriggerRef < handlerProps.settings.cooldown
  /\ toMain # <<>>
  /\ Exceeds(Head(toMain).diff, Threshold(handlerProps.settings.sensitivity))

\* The time target of the session on screen has elapsed while monitoring
\* is on (and a stop can still be posted to the worker within the bound).
TimeUp ==
  /\ isMonitoring
  /\ Len(laps) > 0
  /\ settings.targetDuration > 0
  /\ now - laps[1].timestamp >= settings.targetDuration * 1000
  /\ posted < MaxPosts

\* C34: with a time target, once the time since the first lap reaches the
\* target while monitoring is on and the list holds a lap, monitoring is
\* eventually off (or the list was emptied meanwhile, ending the session the
\* time was counted for); with a time target of 0 the time check is never
\* able to switch monitoring off.
C34_TimeTargetEndsSession ==
  /\ TimeUp ~> (~isMonitoring \/ laps = <<>>)
  /\ [](settings.targetDuration = 0 => ~ENABLED CheckInterval)

\* The time check has ended a session that has no lap target: monitoring is
\* off, the time is up for the laps on screen and the RESET of the stop is
\* posted.
C34_Witness ==
  /\ ~isMonitoring
  /\ settings.targetLaps = 0
  /\ settings.targetDuration > 0
  /\ Len(laps) > 1
  /\ now - laps[1].timestamp >= settings.targetDuration * 1000
  /\ updateQueue = <<>>
  /\ toWorker # <<>>
  /\ toMain = <<>>

\* The laps of the list evaluated that have a duration.
Timed == {i \in DOMAIN stats.laps : stats.laps[i].duration > 0}
TimedDurations == {stats.laps[i].duration : i \in Timed}

====
